---- MODULE Spec2Model ----
(***************************************************************************)
(* A model of task-1.py: the address book (Field, Phone, Birthday, Record, *)
(* AddressBook), its command handlers, the snapshot file and the command   *)
(* loop of main().                                                         *)
(*                                                                         *)
(* Strings the program inspects character by character (phone numbers) are *)
(* sequences of characters; a character is written as a one-symbol string, *)
(* "LF" is the newline and "u0660" a decimal digit outside ASCII.          *)
(* A Python exception is the field `raised` of an operation's result.      *)
(***************************************************************************)
EXTENDS Integers, Sequences, FiniteSets, TLC

VARIABLES
    pc,         \* where the process is: "lib" (library calls, no main), "start", "loop", "done", "crashed"
    book,       \* AddressBook.data: the entries <<key, record>> in insertion order
    file,       \* addressbook.pkl: <<>> when absent, else <<the pickled book>>
    saves,      \* save_data calls of the running session
    cmd,        \* main's local `command` (the verb of the last line parsed)
    today,      \* the date datetime.now().date() returns
    out,        \* what the last call returned, raised or printed
    lastStored, \* history: per name, the id of the record add_record stored last (0: none)
    exitBook    \* history: the content of the book when the last session ended

vars == <<pc, book, file, saves, cmd, today, out, lastStored, exitBook>>

(***************************************************************************)
(* Bounds of the model.                                                    *)
(***************************************************************************)
MaxPhones == 2

Names == {"a", "b"}

(***************************************************************************)
(* Helpers on sequences.                                                   *)
(***************************************************************************)
Rep(c, n) == [i \in 1..n |-> c]

RemoveAt(s, i) == SubSeq(s, 1, i - 1) \o SubSeq(s, i + 1, Len(s))

(***************************************************************************)
(* Phone (lines 22-29).                                                    *)
(***************************************************************************)
PhoneLen == 10

AsciiDigit == {"0", "1", "2", "3", "4", "5", "6", "7", "8", "9"}

\* What \d matches in a str pattern: every Unicode decimal digit.
UnicodeDigit == AsciiDigit \cup {"u0660"}

\* re.match(r'^\d{10}$', s): ten \d from the start, then $, which matches at
\* the end of the string and also just before a newline that ends the string.
Phone_validate(s) ==
    /\ Len(s) >= PhoneLen
    /\ \A i \in 1..PhoneLen : s[i] \in UnicodeDigit
    /\ \/ Len(s) = PhoneLen
       \/ Len(s) = PhoneLen + 1 /\ s[PhoneLen + 1] = "LF"

\* Phone(value): the stored value, or ValueError.
Phone(value) ==
    IF ~Phone_validate(value)
    THEN [raised |-> "ValueError", msg |-> "Phone number must be 10 digits.", value |-> <<>>]
    ELSE [raised |-> "none", msg |-> "", value |-> value]

(***************************************************************************)
(* Record (lines 51-99). A record is                                       *)
(*   [id, name, phones, birthday]: id stands for the object's identity,    *)
(*   phones is the list of the Phone values, birthday is <<>> (None) or    *)
(*   <<the Birthday value>>.                                               *)
(***************************************************************************)
Record(id, name) == [id |-> id, name |-> name, phones |-> <<>>, birthday |-> <<>>]

Ok(r) == [raised |-> "none", msg |-> "", rec |-> r]

Raise(kind, msg, r) == [raised |-> kind, msg |-> msg, rec |-> r]

\* The index of the first phone whose value is phone_number; 0 is None.
find_phone(r, phone_number) ==
    IF \E i \in 1..Len(r.phones) : r.phones[i] = phone_number
    THEN CHOOSE i \in 1..Len(r.phones) :
             /\ r.phones[i] = phone_number
             /\ \A j \in 1..(i - 1) : r.phones[j] # phone_number
    ELSE 0

add_phone(r, phone_number) ==
    LET p == Phone(phone_number) IN
    IF p.raised # "none"
    THEN Raise(p.raised, p.msg, r)
    ELSE Ok([r EXCEPT !.phones = Append(r.phones, p.value)])

\* list.remove(phone_to_remove) removes the object find_phone returned.
remove_phone(r, phone_number) ==
    LET i == find_phone(r, phone_number) IN
    IF i # 0 THEN Ok([r EXCEPT !.phones = RemoveAt(r.phones, i)]) ELSE Ok(r)

\* edit_phone writing the new number over the old one, in its place.
edit_phone_in_place(r, old_phone_number, new_phone_number) ==
    LET i == find_phone(r, old_phone_number)
        p == Phone(new_phone_number)
    IN
    IF i = 0
    THEN Raise("ValueError", "Old phone does not exist so it is cannot be edited", r)
    ELSE IF p.raised # "none"
         THEN Raise(p.raised, p.msg, r)
         ELSE Ok([r EXCEPT !.phones[i] = p.value])

\* edit_phone removing the old number before it adds the new one.
edit_phone_remove_first(r, old_phone_number, new_phone_number) ==
    IF find_phone(r, old_phone_number) # 0
    THEN LET removed == remove_phone(r, old_phone_number).rec
             added == add_phone(removed, new_phone_number)
         IN added
    ELSE Raise("ValueError", "Old phone does not exist so it is cannot be edited", r)

edit_phone(r, old_phone_number, new_phone_number) ==
    IF find_phone(r, old_phone_number) # 0
    THEN LET added == add_phone(r, new_phone_number) IN
         IF added.raised # "none"
         THEN added
         ELSE remove_phone(added.rec, old_phone_number)
    ELSE Raise("ValueError", "Old phone does not exist so it is cannot be edited", r)

(***************************************************************************)
(* datetime.date: a date is [year, month, day]; the arithmetic goes        *)
(* through the proleptic Gregorian ordinal, as datetime's does.            *)
(***************************************************************************)
FirstYear == 2023

YearSpan == 2

IsLeap(y) == (y % 4 = 0) /\ ((y % 100 # 0) \/ (y % 400 = 0))

DaysInMonth(y, m) ==
    IF m = 2 THEN (IF IsLeap(y) THEN 29 ELSE 28)
    ELSE IF m \in {4, 6, 9, 11} THEN 30 ELSE 31

DaysBeforeYear(y) ==
    365 * (y - 1) + ((y - 1) \div 4) - ((y - 1) \div 100) + ((y - 1) \div 400)

RECURSIVE DaysBeforeMonth(_, _)
DaysBeforeMonth(y, m) ==
    IF m = 1 THEN 0 ELSE DaysBeforeMonth(y, m - 1) + DaysInMonth(y, m - 1)

Date(y, m, d) == [year |-> y, month |-> m, day |-> d]

IsDate(y, m, d) == y \in 1..9999 /\ m \in 1..12 /\ d \in 1..DaysInMonth(y, m)

toordinal(dt) == DaysBeforeYear(dt.year) + DaysBeforeMonth(dt.year, dt.month) + dt.day

\* date.fromordinal, for the ordinals of the modelled years and the two after.
fromordinal(n) ==
    LET y == CHOOSE yy \in FirstYear..(FirstYear + YearSpan + 1) :
                 DaysBeforeYear(yy) < n /\ n <= DaysBeforeYear(yy + 1)
        k == n - DaysBeforeYear(y)
        m == CHOOSE mm \in 1..12 :
                 DaysBeforeMonth(y, mm) < k /\ k <= DaysBeforeMonth(y, mm) + DaysInMonth(y, mm)
    IN Date(y, m, k - DaysBeforeMonth(y, m))

\* date.weekday(): Monday is 0, Saturday 5, Sunday 6.
weekday(dt) == (toordinal(dt) + 6) % 7

\* date.replace(year=y): ValueError when the day does not exist in year y.
replace_year(dt, y) ==
    IF dt.day > DaysInMonth(y, dt.month)
    THEN [raised |-> "ValueError", msg |-> "day is out of range for month", date |-> dt]
    ELSE [raised |-> "none", msg |-> "", date |-> Date(y, dt.month, dt.day)]

DigitChar(n) == <<"0", "1", "2", "3", "4", "5", "6", "7", "8", "9">>[n + 1]

\* date.strftime("%Y.%m.%d"): four digits, ".", two digits, ".", two digits.
strftime(dt) ==
    << DigitChar(dt.year \div 1000), DigitChar((dt.year \div 100) % 10),
       DigitChar((dt.year \div 10) % 10), DigitChar(dt.year % 10), ".",
       DigitChar(dt.month \div 10), DigitChar(dt.month % 10), ".",
       DigitChar(dt.day \div 10), DigitChar(dt.day % 10) >>

(***************************************************************************)
(* Birthday (lines 32-46). The text DD.MM.YYYY is the triple of its three  *)
(* numbers <<DD, MM, YYYY>>; strptime accepts it when they name a date.    *)
(***************************************************************************)
Birthday_validate(birthday) == IsDate(birthday[3], birthday[2], birthday[1])

Birthday(value) ==
    IF ~Birthday_validate(value)
    THEN [raised |-> "ValueError", msg |-> "Invalid date format. Use DD.MM.YYYY", value |-> <<>>]
    ELSE [raised |-> "none", msg |-> "", value |-> <<value>>]

to_date(value) == Date(value[3], value[2], value[1])

Record_add_birthday(r, birthday) ==
    LET b == Birthday(birthday) IN
    IF b.raised # "none"
    THEN Raise(b.raised, b.msg, r)
    ELSE Ok([r EXCEPT !.birthday = b.value])

\* The value returned: <<>> is None, <<n>> the number of days.
days_to_birthday(r, now) ==
    IF r.birthday = <<>>
    THEN [raised |-> "none", msg |-> "", value |-> <<>>]
    ELSE LET this == replace_year(to_date(r.birthday[1]), now.year) IN
         IF this.raised # "none"
         THEN [raised |-> this.raised, msg |-> this.msg, value |-> <<>>]
         ELSE IF toordinal(now) > toordinal(this.date)
              THEN LET next == replace_year(this.date, now.year + 1) IN
                   IF next.raised # "none"
                   THEN [raised |-> next.raised, msg |-> next.msg, value |-> <<>>]
                   ELSE [raised |-> "none", msg |-> "",
                         value |-> <<toordinal(next.date) - toordinal(now)>>]
              ELSE [raised |-> "none", msg |-> "",
                    value |-> <<toordinal(this.date) - toordinal(now)>>]

(***************************************************************************)
(* AddressBook (lines 104-138). The dict is the sequence of its entries    *)
(* [key, rec] in insertion order: assigning to a key that is present keeps *)
(* its place, assigning to a new key appends.                              *)
(***************************************************************************)
KeyIndex(b, name) ==
    IF \E i \in 1..Len(b) : b[i].key = name
    THEN CHOOSE i \in 1..Len(b) : b[i].key = name /\ \A j \in 1..(i - 1) : b[j].key # name
    ELSE 0

\* self.data[key] = record
SetItem(b, key, record) ==
    LET i == KeyIndex(b, key) IN
    IF i # 0
    THEN [b EXCEPT ![i] = [key |-> key, rec |-> record]]
    ELSE Append(b, [key |-> key, rec |-> record])

\* add_record keeping the record a name already has (dict.setdefault).
add_record_setdefault(b, record) ==
    IF KeyIndex(b, record.name) # 0 THEN b ELSE SetItem(b, record.name, record)

add_record(b, record) == SetItem(b, record.name, record)

\* <<>> is None, <<record>> the record found.
find(b, name) ==
    LET i == KeyIndex(b, name) IN IF i = 0 THEN <<>> ELSE <<b[i].rec>>

delete(b, name) ==
    LET i == KeyIndex(b, name) IN IF i # 0 THEN RemoveAt(b, i) ELSE b

\* weekend_shift with Saturday moved one day only.
weekend_shift_one_day(wd) == IF wd = 5 THEN 1 ELSE IF wd = 6 THEN 1 ELSE 0

\* Lines 130-133: what is added to days_until_birthday on a weekend.
weekend_shift(wd) == (IF wd = 5 THEN 2 ELSE 0) + (IF wd = 6 THEN 1 ELSE 0)

\* One pass of the loop body (lines 120-136) for one record: the entry it
\* appends (<<>> for none), or the exception replace() raises.
UpcomingOf(r, now) ==
    IF r.birthday = <<>>
    THEN [raised |-> "none", msg |-> "", entries |-> <<>>]
    ELSE LET this == replace_year(to_date(r.birthday[1]), now.year) IN
         IF this.raised # "none"
         THEN [raised |-> this.raised, msg |-> this.msg, entries |-> <<>>]
         ELSE LET next == IF toordinal(this.date) < toordinal(now)
                          THEN replace_year(this.date, now.year + 1)
                          ELSE this
              IN
              IF next.raised # "none"
              THEN [raised |-> next.raised, msg |-> next.msg, entries |-> <<>>]
              ELSE LET days_until_birthday == toordinal(next.date) - toordinal(now)
                       shifted == days_until_birthday + weekend_shift(weekday(next.date))
                   IN
                   IF days_until_birthday <= 7
                   THEN [raised |-> "none", msg |-> "",
                         entries |-> << [name |-> r.name,
                                         congratulation_date |->
                                             strftime(fromordinal(toordinal(now) + shifted))] >>]
                   ELSE [raised |-> "none", msg |-> "", entries |-> <<>>]

RECURSIVE UpcomingFrom(_, _, _, _)
UpcomingFrom(b, now, i, acc) ==
    IF i > Len(b)
    THEN [raised |-> "none", msg |-> "", list |-> acc]
    ELSE LET one == UpcomingOf(b[i].rec, now) IN
         IF one.raised # "none"
         THEN [raised |-> one.raised, msg |-> one.msg, list |-> <<>>]
         ELSE UpcomingFrom(b, now, i + 1, acc \o one.entries)

get_upcoming_birthdays(b, now) == UpcomingFrom(b, now, 1, <<>>)

(***************************************************************************)
(* The command handlers (lines 159-234). A handler's result is             *)
(*   [book, raised, msg, value, stored]: the book it leaves, the exception *)
(*   that left it (or "none"), the value returned, and the records it      *)
(*   passed to add_record.                                                 *)
(***************************************************************************)
Returns(b, value, stored) ==
    [book |-> b, raised |-> "none", msg |-> "", value |-> value, stored |-> stored]

Raises(b, kind, msg, stored) ==
    [book |-> b, raised |-> kind, msg |-> msg, value |-> "", stored |-> stored]

\* The object the book holds under `name` after a method changed it in place.
Mutate(b, name, r) == [b EXCEPT ![KeyIndex(b, name)].rec = r]

\* An identity no record of the book has.
FreshId(b) ==
    CHOOSE n \in 1..(Len(b) + 1) :
        /\ \A i \in 1..Len(b) : b[i].rec.id # n
        /\ \A k \in 1..(n - 1) : \E i \in 1..Len(b) : b[i].rec.id = k

\* "; ".join(str(phone) for phone in phones)
RECURSIVE JoinPhones(_)
JoinPhones(phones) ==
    IF Len(phones) = 0 THEN <<>>
    ELSE IF Len(phones) = 1 THEN phones[1]
    ELSE phones[1] \o <<";", " ">> \o JoinPhones(Tail(phones))

\* Record.__str__
Record_str(r) ==
    [text |-> "Contact name: {name}, phones: {phones}{birthday}",
     name |-> r.name, phones |-> JoinPhones(r.phones), birthday |-> r.birthday]

show_birthday_of(r) ==
    IF r.birthday # <<>>
    THEN [text |-> "Birthday: {birthday}", birthday |-> r.birthday]
    ELSE [text |-> "Birthday not set.", birthday |-> <<>>]

add_contact(args, b) ==
    IF Len(args) # 2
    THEN Raises(b, "ValueError", "Give me name and phone please.", <<>>)
    ELSE LET name == args[1]
             phone == args[2]
             found == find(b, name)
             record == IF found = <<>> THEN Record(FreshId(b), name) ELSE found[1]
             b1 == IF found = <<>> THEN add_record(b, record) ELSE b
             stored == IF found = <<>> THEN <<record>> ELSE <<>>
             message == IF found = <<>> THEN "Contact added." ELSE "Contact updated."
         IN
         IF phone # <<>>
         THEN LET added == add_phone(record, phone) IN
              IF added.raised # "none"
              THEN Raises(b1, added.raised, added.msg, stored)
              ELSE Returns(Mutate(b1, name, added.rec), message, stored)
         ELSE Returns(b1, message, stored)

change_contact(args, b) ==
    IF Len(args) # 3
    THEN Raises(b, "ValueError", "Give me name, old phone, and new phone please.", <<>>)
    ELSE LET name == args[1]
             found == find(b, name)
         IN
         IF found = <<>>
         THEN Raises(b, "KeyError", "", <<>>)
         ELSE LET edited == edit_phone(found[1], args[2], args[3]) IN
              IF edited.raised # "none"
              THEN Raises(Mutate(b, name, edited.rec), edited.raised, edited.msg, <<>>)
              ELSE Returns(Mutate(b, name, edited.rec), "Phone number updated.", <<>>)

show_phone(args, b) ==
    IF Len(args) # 1
    THEN Raises(b, "ValueError", "Give me name please.", <<>>)
    ELSE LET found == find(b, args[1]) IN
         IF found = <<>>
         THEN Raises(b, "KeyError", "", <<>>)
         ELSE Returns(b, JoinPhones(found[1].phones), <<>>)

show_all(b) == Returns(b, [i \in 1..Len(b) |-> Record_str(b[i].rec)], <<>>)

add_birthday(args, b) ==
    IF Len(args) # 2
    THEN Raises(b, "ValueError", "Give me name and birthday please.", <<>>)
    ELSE LET name == args[1]
             found == find(b, name)
         IN
         IF found = <<>>
         THEN Raises(b, "KeyError", "", <<>>)
         ELSE LET set == Record_add_birthday(found[1], args[2]) IN
              IF set.raised # "none"
              THEN Raises(Mutate(b, name, set.rec), set.raised, set.msg, <<>>)
              ELSE Returns(Mutate(b, name, set.rec), "Birthday added.", <<>>)

show_birthday(args, b) ==
    IF Len(args) # 1
    THEN Raises(b, "ValueError", "Give me name please.", <<>>)
    ELSE LET found == find(b, args[1]) IN
         IF found = <<>>
         THEN Raises(b, "KeyError", "", <<>>)
         ELSE Returns(b, show_birthday_of(found[1]), <<>>)

birthdays(args, b, now) ==
    IF Len(args) # 0
    THEN Raises(b, "ValueError", "This command does not require arguments.", <<>>)
    ELSE LET upcoming_birthdays == get_upcoming_birthdays(b, now) IN
         IF upcoming_birthdays.raised # "none"
         THEN Raises(b, upcoming_birthdays.raised, upcoming_birthdays.msg, <<>>)
         ELSE IF upcoming_birthdays.list = <<>>
              THEN Returns(b, "No upcoming birthdays in the next week.", <<>>)
              ELSE Returns(b, [i \in 1..Len(upcoming_birthdays.list) |->
                                  [text |-> "Upcoming birthday: {name} on {congratulation_date}",
                                   user |-> upcoming_birthdays.list[i]]], <<>>)

\* The decorator (lines 143-154): KeyError, ValueError and IndexError become
\* the value returned; nothing else is caught.
input_error(res) ==
    IF res.raised = "KeyError" THEN Returns(res.book, "Contact not found.", res.stored)
    ELSE IF res.raised = "ValueError" THEN Returns(res.book, res.msg, res.stored)
    ELSE IF res.raised = "IndexError" THEN Returns(res.book, "Enter user name.", res.stored)
    ELSE res

(***************************************************************************)
(* The snapshot (lines 239-249). pickle writes, per entry of the dict, the *)
(* key and the record's fields; loading builds new objects from them.      *)
(***************************************************************************)
pickle_dump(b) ==
    [i \in 1..Len(b) |-> <<b[i].key, b[i].rec.name, b[i].rec.phones, b[i].rec.birthday>>]

pickle_load(data) ==
    [i \in 1..Len(data) |->
        [key |-> data[i][1],
         rec |-> [id |-> i, name |-> data[i][2], phones |-> data[i][3],
                  birthday |-> data[i][4]]]]

save_data(b) == <<pickle_dump(b)>>

\* load_data never reading the file.
load_data_new_book(f) == <<>>

\* FileNotFoundError gives the empty AddressBook.
load_data(f) == IF f = <<>> THEN <<>> ELSE pickle_load(f[1])

(***************************************************************************)
(* parse_input (lines 254-258). A line is a sequence of items, each a run  *)
(* of whitespace [ws |-> TRUE] or a word [ws |-> FALSE, w |-> the word].   *)
(***************************************************************************)
WS == [ws |-> TRUE, w |-> ""]

Word(w) == [ws |-> FALSE, w |-> w]

\* str.lower() on the verbs the model types.
lower(w) ==
    IF w = "ADD" THEN "add"
    ELSE IF w = "Exit" THEN "exit"
    ELSE IF w = "CLOSE" THEN "close"
    ELSE w

\* user_input.strip().split()
RECURSIVE split(_)
split(line) ==
    IF line = <<>> THEN <<>>
    ELSE IF Head(line).ws THEN split(Tail(line))
    ELSE <<Head(line).w>> \o split(Tail(line))

parse_input(user_input) ==
    LET parts == split(user_input) IN
    IF Len(parts) = 0
    THEN [raised |-> "IndexError", command |-> "", args |-> <<>>]
    ELSE [raised |-> "none", command |-> lower(parts[1]), args |-> Tail(parts)]

(***************************************************************************)
(* The inputs the model draws.                                             *)
(***************************************************************************)
P1 == Rep("1", PhoneLen)

P2 == Rep("2", PhoneLen)

TooShort == Rep("1", PhoneLen - 1)

TooLong == Rep("1", PhoneLen + 1)

WithNewline == P1 \o <<"LF">>

WithUnicodeDigit == Rep("1", PhoneLen - 1) \o <<"u0660">>

WithLetter == Rep("1", PhoneLen - 1) \o <<"a">>

WithDashes == <<"1", "1", "1", "-", "1", "1", "1", "-", "1", "1", "1", "1">>

\* The strings handed to Phone, add_phone, remove_phone and edit_phone.
PhoneArgs ==
    {P1, P2, TooShort, TooLong, WithNewline, WithUnicodeDigit, WithLetter, WithDashes, <<>>}

LeapDay == <<29, 2, 2000>>

\* Four valid DD.MM.YYYY texts, and one that names no date.
BirthdayArgs ==
    {LeapDay, <<31, 12, 1985>>, <<1, 1, 1990>>, <<15, 6, 1990>>, <<29, 2, 2023>>}

\* Every date of the modelled years.
AllDays ==
    {fromordinal(n) : n \in toordinal(Date(FirstYear, 1, 1))..
                            toordinal(Date(FirstYear + YearSpan - 1, 12, 31))}

SessionDays == {Date(FirstYear, 6, 12)}

WithinBounds(b) == \A i \in 1..Len(b) : Len(b[i].rec.phones) <= MaxPhones

NoneStored == [n \in Names |-> 0]

\* lastStored after the add_record calls of one operation.
RECURSIVE NoteStored(_, _)
NoteStored(ls, stored) ==
    IF stored = <<>> THEN ls
    ELSE NoteStored([ls EXCEPT ![Head(stored).name] = Head(stored).id], Tail(stored))

\* What a library call leaves in `out`.
Call(op, args, raised, value) == [op |-> op, args |-> args, raised |-> raised, value |-> value]

(***************************************************************************)
(* Library calls: the methods of Record and AddressBook called directly.   *)
(***************************************************************************)
NewPhone(s) ==
    /\ pc = "lib"
    /\ out' = Call("Phone", <<s>>, Phone(s).raised, Phone(s).value)
    /\ UNCHANGED <<pc, book, file, saves, cmd, today, lastStored, exitBook>>

\* book.add_record(record), record a new Record(name) with the phones `ps`.
AddRecord(name, ps) ==
    LET record == [Record(FreshId(book), name) EXCEPT !.phones = ps] IN
    /\ pc = "lib"
    /\ book' = add_record(book, record)
    /\ lastStored' = NoteStored(lastStored, <<record>>)
    /\ out' = Call("add_record", <<name>>, "none", <<>>)
    /\ UNCHANGED <<pc, file, saves, cmd, today, exitBook>>

Delete(name) ==
    /\ pc = "lib"
    /\ book' = delete(book, name)
    /\ lastStored' = IF KeyIndex(book, name) # 0 THEN [lastStored EXCEPT ![name] = 0]
                     ELSE lastStored
    /\ out' = Call("delete", <<name>>, "none", <<>>)
    /\ UNCHANGED <<pc, file, saves, cmd, today, exitBook>>

\* A method of the record the book holds under `name`: `res` is its result.
OnRecord(name, op, args, res) ==
    /\ pc = "lib"
    /\ WithinBounds(Mutate(book, name, res.rec))
    /\ book' = Mutate(book, name, res.rec)
    /\ out' = Call(op, args, res.raised, <<>>)
    /\ UNCHANGED <<pc, file, saves, cmd, today, lastStored, exitBook>>

AddPhone(name, p) ==
    /\ find(book, name) # <<>>
    /\ OnRecord(name, "add_phone", <<p>>, add_phone(find(book, name)[1], p))

RemovePhone(name, p) ==
    /\ find(book, name) # <<>>
    /\ OnRecord(name, "remove_phone", <<p>>, remove_phone(find(book, name)[1], p))

EditPhone(name, old, new) ==
    /\ find(book, name) # <<>>
    /\ OnRecord(name, "edit_phone", <<old, new>>, edit_phone(find(book, name)[1], old, new))

SetBirthday(name, b) ==
    /\ find(book, name) # <<>>
    /\ OnRecord(name, "add_birthday", <<b>>, Record_add_birthday(find(book, name)[1], b))

DaysToBirthday(name) ==
    /\ pc = "lib"
    /\ find(book, name) # <<>>
    /\ LET res == days_to_birthday(find(book, name)[1], today) IN
       out' = Call("days_to_birthday", <<name>>, res.raised, res.value)
    /\ UNCHANGED <<pc, book, file, saves, cmd, today, lastStored, exitBook>>

GetUpcomingBirthdays ==
    /\ pc = "lib"
    /\ LET res == get_upcoming_birthdays(book, today) IN
       out' = Call("get_upcoming_birthdays", <<>>, res.raised, res.list)
    /\ UNCHANGED <<pc, book, file, saves, cmd, today, lastStored, exitBook>>

\* A decorated command handler called directly: `res` is the handler's result.
Handler(op, args, res) ==
    /\ pc = "lib"
    /\ WithinBounds(res.book)
    /\ book' = res.book
    /\ lastStored' = NoteStored(lastStored, res.stored)
    /\ out' = Call(op, args, res.raised, input_error(res).value)
    /\ UNCHANGED <<pc, file, saves, cmd, today, exitBook>>

AddContact(args) == Handler("add_contact", args, add_contact(args, book))

ChangeContact(args) == Handler("change_contact", args, change_contact(args, book))

AddBirthday(args) == Handler("add_birthday", args, add_birthday(args, book))

(***************************************************************************)
(* The argument lists the handlers are given.                              *)
(***************************************************************************)
AddArgs ==
    {<<"a", P1>>, <<"a", P2>>, <<"a", TooShort>>, <<"b", P1>>, <<"b", WithLetter>>,
     <<>>, <<"a">>, <<"a", P1, P2>>}

ChangeArgs ==
    {<<"a", P1, P2>>, <<"a", P2, P1>>, <<"a", P1, P1>>, <<"a", P1, TooShort>>,
     <<"b", P1, P2>>, <<"a", P1>>, <<>>}

AddBirthdayArgs ==
    {<<"a", <<15, 6, 1990>>>>, <<"a", <<31, 4, 2000>>>>, <<"b", <<15, 6, 1990>>>>,
     <<"a">>, <<>>}

(***************************************************************************)
(* One record under the phone methods.                                     *)
(***************************************************************************)
InitRecord ==
    /\ pc = "lib"
    /\ book = add_record(<<>>, Record(1, "a"))
    /\ file = <<>>
    /\ saves = 0
    /\ cmd = ""
    /\ today \in SessionDays
    /\ out = Call("add_record", <<"a">>, "none", <<>>)
    /\ lastStored = [NoneStored EXCEPT !["a"] = 1]
    /\ exitBook = <<>>

NextRecord ==
    \/ \E s \in PhoneArgs : NewPhone(s)
    \/ \E p \in PhoneArgs : AddPhone("a", p)
    \/ \E p \in PhoneArgs : RemovePhone("a", p)
    \/ \E old \in PhoneArgs, new \in PhoneArgs : EditPhone("a", old, new)
    \/ \E args \in ChangeArgs : ChangeContact(args)

SpecRecord == InitRecord /\ [][NextRecord]_vars

(***************************************************************************)
(* The address book under add_record, delete and the handlers that change  *)
(* it.                                                                     *)
(***************************************************************************)
InitLib ==
    /\ pc = "lib"
    /\ book = <<>>
    /\ file = <<>>
    /\ saves = 0
    /\ cmd = ""
    /\ today \in SessionDays
    /\ out = Call("AddressBook", <<>>, "none", <<>>)
    /\ lastStored = NoneStored
    /\ exitBook = <<>>

NextBook ==
    \/ \E n \in Names, ps \in {<<>>, <<P2>>} : AddRecord(n, ps)
    \/ \E n \in Names : Delete(n)
    \/ \E args \in AddArgs : AddContact(args)
    \/ \E args \in ChangeArgs : ChangeContact(args)
    \/ \E args \in AddBirthdayArgs : AddBirthday(args)

SpecBook == InitLib /\ [][NextBook]_vars

(***************************************************************************)
(* The address book under the birthday methods, on every date.             *)
(***************************************************************************)
\* The books add_record builds from new records, in either order.
NewBooks ==
    {<<>>} \cup {add_record(<<>>, Record(1, n)) : n \in Names}
           \cup {add_record(add_record(<<>>, Record(1, n)), Record(2, m)) :
                     n \in Names, m \in Names}

InitBirthdays ==
    /\ pc = "lib"
    /\ book \in NewBooks
    /\ file = <<>>
    /\ saves = 0
    /\ cmd = ""
    /\ today \in AllDays
    /\ out = Call("add_record", <<>>, "none", <<>>)
    /\ lastStored = [n \in Names |-> IF find(book, n) = <<>> THEN 0 ELSE find(book, n)[1].id]
    /\ exitBook = <<>>

NextBirthdays ==
    \/ \E n \in Names, b \in BirthdayArgs : SetBirthday(n, b)
    \/ \E n \in Names : DaysToBirthday(n)
    \/ GetUpcomingBirthdays

SpecBirthdays == InitBirthdays /\ [][NextBirthdays]_vars

(***************************************************************************)
(* main (lines 263-300): one run of the program after another. A line is   *)
(* read, parsed and answered in one step.                                  *)
(***************************************************************************)
\* The words of the line, each followed by whitespace.
Line(words) ==
    [i \in 1..(2 * Len(words)) |-> IF i % 2 = 1 THEN Word(words[(i + 1) \div 2]) ELSE WS]

\* The lines typed, as their words.
CliWords ==
    {<<"hello">>, <<"all">>, <<"birthdays">>, <<"birthdays", "a">>, <<"close">>,
     <<"exit">>, <<"Exit">>, <<"foo">>,
     <<"add">>, <<"add", "a", P1>>, <<"ADD", "a", P2>>, <<"add", "a", TooShort>>,
     <<"add", "b", WithLetter>>,
     <<"change", "a", P1, P2>>, <<"change", "a", P2, P1>>, <<"change", "a", P1, TooShort>>,
     <<"change", "a", P1>>,
     <<"phone">>, <<"phone", "a">>, <<"phone", "b">>,
     <<"add-birthday", "a", <<15, 6, 1990>>>>, <<"add-birthday", "a", LeapDay>>,
     <<"add-birthday", "a", <<31, 4, 2000>>>>, <<"add-birthday", "a">>,
     <<"show-birthday">>, <<"show-birthday", "a">>}

\* The lines input() returns: the typed lines, the empty line, blank lines.
CliLines == {<<>>, <<WS>>, <<WS, WS>>} \cup {Line(w) : w \in CliWords}

\* What parse_input makes of them.
Parsed == {parse_input(line) : line \in CliLines}

\* The book without the identities of its objects.
Content(b) ==
    [i \in 1..Len(b) |->
        [key |-> b[i].key, name |-> b[i].rec.name, phones |-> b[i].rec.phones,
         birthday |-> b[i].rec.birthday]]

Printed(caught, text) == Call("print", <<>>, caught, text)

Init ==
    /\ pc = "start"
    /\ book = <<>>
    /\ file = <<>>
    /\ saves = 0
    /\ cmd = ""
    /\ today \in SessionDays
    /\ out = Call("run", <<>>, "none", <<>>)
    /\ lastStored = NoneStored
    /\ exitBook = <<>>

\* book = load_data(); print("Welcome to the assistant bot!")
Start ==
    /\ pc = "start"
    /\ book' = load_data(file)
    /\ pc' = "loop"
    /\ out' = Printed("none", "Welcome to the assistant bot!")
    /\ UNCHANGED <<file, saves, cmd, today, lastStored, exitBook>>

\* parse_input raised on a line without a word; nothing in main catches it.
BlankLine(p) ==
    /\ pc = "loop"
    /\ p.raised # "none"
    /\ pc' = "crashed"
    /\ out' = Call("traceback", <<>>, p.raised, <<>>)
    /\ UNCHANGED <<book, file, saves, cmd, today, lastStored, exitBook>>

Exit(p) ==
    /\ pc = "loop"
    /\ p.raised = "none"
    /\ p.command \in {"close", "exit"}
    /\ cmd' = p.command
    /\ file' = save_data(book)
    /\ saves' = saves + 1
    /\ exitBook' = Content(book)
    /\ out' = Printed("none", "Good bye!")
    /\ pc' = "done"
    /\ UNCHANGED <<book, today, lastStored>>

\* A branch of the loop that prints a fixed text and reads on.
Answer(p, text) ==
    /\ pc = "loop"
    /\ p.raised = "none"
    /\ cmd' = p.command
    /\ out' = Printed("none", text)
    /\ UNCHANGED <<pc, book, file, saves, today, lastStored, exitBook>>

\* A branch that prints what a decorated handler returns; an exception the
\* decorator does not catch ends the process.
Dispatch(p, res) ==
    /\ pc = "loop"
    /\ WithinBounds(res.book)
    /\ cmd' = p.command
    /\ book' = res.book
    /\ IF input_error(res).raised = "none"
       THEN pc' = "loop" /\ out' = Printed(res.raised, input_error(res).value)
       ELSE pc' = "crashed" /\ out' = Call("traceback", <<>>, res.raised, <<>>)
    /\ UNCHANGED <<file, saves, today, lastStored, exitBook>>

Hello(p) == p.command = "hello" /\ Answer(p, "How can I help you?")

Add(p) == p.command = "add" /\ Dispatch(p, add_contact(p.args, book))

Change(p) == p.command = "change" /\ Dispatch(p, change_contact(p.args, book))

ShowPhone(p) == p.command = "phone" /\ Dispatch(p, show_phone(p.args, book))

All(p) == p.command = "all" /\ Dispatch(p, show_all(book))

AddBirthdayCmd(p) == p.command = "add-birthday" /\ Dispatch(p, add_birthday(p.args, book))

ShowBirthday(p) == p.command = "show-birthday" /\ Dispatch(p, show_birthday(p.args, book))

Birthdays(p) == p.command = "birthdays" /\ Dispatch(p, birthdays(p.args, book, today))

Verbs ==
    {"close", "exit", "hello", "add", "change", "phone", "all", "add-birthday",
     "show-birthday", "birthdays"}

Invalid(p) == p.command \notin Verbs /\ Answer(p, "Invalid command.")

\* The program is run again: a new process, the file as the last one left it.
Run ==
    /\ pc \in {"done", "crashed"}
    /\ pc' = "start"
    /\ book' = <<>>
    /\ saves' = 0
    /\ cmd' = ""
    /\ out' = Call("run", <<>>, "none", <<>>)
    /\ UNCHANGED <<file, today, lastStored, exitBook>>

Next ==
    \/ Start
    \/ \E p \in Parsed : BlankLine(p)
    \/ \E p \in Parsed : Exit(p)
    \/ \E p \in Parsed : Hello(p)
    \/ \E p \in Parsed : Add(p)
    \/ \E p \in Parsed : Change(p)
    \/ \E p \in Parsed : ShowPhone(p)
    \/ \E p \in Parsed : All(p)
    \/ \E p \in Parsed : AddBirthdayCmd(p)
    \/ \E p \in Parsed : ShowBirthday(p)
    \/ \E p \in Parsed : Birthdays(p)
    \/ \E p \in Parsed : Invalid(p)
    \/ Run

Spec == Init /\ [][Next]_vars

(***************************************************************************)
(* The properties.                                                         *)
(***************************************************************************)
\* The phones of the record under `name`.
PhonesOf(b, name) == find(b, name)[1].phones

\* The list `phones` without its first entry equal to `old`.
WithoutFirst(phones, old) ==
    LET first == CHOOSE i \in 1..Len(phones) :
                     phones[i] = old /\ \A j \in 1..(i - 1) : phones[j] # old
    IN [k \in 1..(Len(phones) - 1) |-> IF k < first THEN phones[k] ELSE phones[k + 1]]

\* Exactly ten ASCII decimal digits and nothing else.
TenAsciiDigits(s) == Len(s) = PhoneLen /\ \A i \in 1..Len(s) : s[i] \in AsciiDigit

\* C3: every step that is edit_phone(old, new) on a record that holds old,
\* with new a phone number Phone accepts, succeeds and leaves the list it
\* found with the first entry equal to old removed and new added at the end:
\* the other phones keep their order and the length is unchanged. This covers
\* lists with duplicates and new = old.
C3_EditPhoneRemovesFirstOldAppendsNew ==
    [][ (/\ out'.op = "edit_phone"
         /\ \E i \in 1..Len(PhonesOf(book, "a")) : PhonesOf(book, "a")[i] = out'.args[1]
         /\ (TenAsciiDigits(out'.args[2]) \/ Phone(out'.args[2]).raised = "none"))
        => /\ out'.raised = "none"
           /\ PhonesOf(book', "a")
                  = Append(WithoutFirst(PhonesOf(book, "a"), out'.args[1]), out'.args[2])
           /\ Len(PhonesOf(book', "a")) = Len(PhonesOf(book, "a")) ]_vars

\* C3's case: edit_phone(P1, P2) succeeded on the list <<P1, P1>>, which holds
\* a duplicate, and left <<P1, P2>>.
C3_Witness ==
    /\ out.op = "edit_phone"
    /\ out.raised = "none"
    /\ out.args = <<P1, P2>>
    /\ PhonesOf(book, "a") = <<P1, P2>>

\* C4: every step that is an edit_phone call, or a change command, which
\* fails (new is not a valid phone, no phone equals old, the contact is not
\* there, the argument count is wrong) leaves the whole book, and so the
\* record's phone list, as it was.
C4_FailedEditLeavesPhones ==
    [][ (out'.op \in {"edit_phone", "change_contact"} /\ out'.raised # "none")
        => book' = book ]_vars

\* C4's case: edit_phone failed on its new number while old was in the list,
\* which holds two phones, old still among them.
C4_Witness ==
    /\ out.op = "edit_phone"
    /\ out.raised = "ValueError"
    /\ ~Phone_validate(out.args[2])
    /\ Len(PhonesOf(book, "a")) = 2
    /\ \E i \in 1..2 : PhonesOf(book, "a")[i] = out.args[1]

\* C9: Phone(s) succeeds, storing s, exactly when s is ten ASCII digits and
\* nothing else, and fails with ValueError otherwise; so every phone a record
\* holds is ten ASCII digits.
C9_PhoneIffTenAsciiDigits ==
    /\ out.op = "Phone" =>
          IF TenAsciiDigits(out.args[1])
          THEN out.raised = "none" /\ out.value = out.args[1]
          ELSE out.raised = "ValueError"
    /\ \A i \in 1..Len(book) : \A k \in 1..Len(book[i].rec.phones) :
          TenAsciiDigits(book[i].rec.phones[k])

\* C5: after any sequence of add_record, delete and the add, change and
\* add-birthday handlers, every key of the book maps to exactly one record,
\* whose name is the key, and find(name) is the record add_record stored last
\* under that name (the object itself, so nothing of an earlier record is
\* merged into it), or None when none was stored or it was deleted since.
C5_LastAddRecordWins ==
    /\ \A i \in 1..Len(book) : book[i].key = book[i].rec.name
    /\ \A i \in 1..Len(book) : \A j \in 1..Len(book) : book[i].key = book[j].key => i = j
    /\ \A n \in Names :
          IF lastStored[n] = 0
          THEN find(book, n) = <<>>
          ELSE find(book, n) # <<>> /\ find(book, n)[1].id = lastStored[n]

\* C5's case: add_record has just stored a record under a name that held
\* one: the first entry of a book of two is the third object made, with the
\* phones it was built with.
C5_Witness ==
    /\ out.op = "add_record"
    /\ Len(book) = 2
    /\ book[1].key = out.args[1]
    /\ book[1].rec.id = 3
    /\ book[1].rec.phones = <<P2>>
    /\ lastStored[book[1].key] = 3

\* The date `k` days after `now`.
DaysAfter(now, k) == fromordinal(toordinal(now) + k)

\* The date has the day and month of the birthday text.
SameDayMonth(dt, birthday) == dt.day = birthday[1] /\ dt.month = birthday[2]

\* The next date with the birthday's day and month, today or later, is at
\* most 7 days from today.
WithinWeek(birthday, now) == \E k \in 0..7 : SameDayMonth(DaysAfter(now, k), birthday)

\* The records of the book that have a birthday within the week, in order.
RECURSIVE DueNames(_, _)
DueNames(b, now) ==
    IF b = <<>> THEN <<>>
    ELSE (IF Head(b).rec.birthday # <<>> /\ WithinWeek(Head(b).rec.birthday[1], now)
          THEN <<Head(b).rec.name>> ELSE <<>>) \o DueNames(Tail(b), now)

\* C1: get_upcoming_birthdays() always returns a list, and the list holds an
\* entry for a record exactly when the record has a birthday whose next
\* occurrence, today or later, is 0 to 7 days from today; for every stored
\* birthday, 29 February too.
C1_UpcomingIffWithinWeek ==
    out.op = "get_upcoming_birthdays" =>
        /\ out.raised = "none"
        /\ [i \in 1..Len(out.value) |-> out.value[i].name] = DueNames(book, today)

DigitValue(c) == CHOOSE n \in 0..9 : DigitChar(n) = c

\* The date a text YYYY.MM.DD names.
ParseYMD(s) ==
    Date(1000 * DigitValue(s[1]) + 100 * DigitValue(s[2]) + 10 * DigitValue(s[3])
             + DigitValue(s[4]),
         10 * DigitValue(s[6]) + DigitValue(s[7]),
         10 * DigitValue(s[9]) + DigitValue(s[10]))

\* 1 January 2000 was a Saturday, 2 January 2000 a Sunday.
IsSaturday(dt) == (toordinal(dt) - toordinal(Date(2000, 1, 1))) % 7 = 0

IsSunday(dt) == (toordinal(dt) - toordinal(Date(2000, 1, 2))) % 7 = 0

\* The occurrence of the birthday within the week from `now`.
Occurrence(birthday, now) ==
    DaysAfter(now, CHOOSE k \in 0..7 : SameDayMonth(DaysAfter(now, k), birthday))

\* C2: every entry get_upcoming_birthdays() returns is for a record whose
\* birthday occurs within the week, and its congratulation date, a text
\* YYYY.MM.DD, is the occurrence plus 2 days when that is a Saturday, plus 1 day
\* when it is a Sunday, and the occurrence itself otherwise; it is never a
\* Saturday or a Sunday and lies between today and today + 9 days.
C2_CongratulationOffWeekend ==
    (out.op = "get_upcoming_birthdays" /\ out.raised = "none") =>
        \A i \in 1..Len(out.value) :
            LET birthday == find(book, out.value[i].name)[1].birthday[1]
                text == out.value[i].congratulation_date
                date == ParseYMD(text)
                occurrence == Occurrence(birthday, today)
            IN
            /\ WithinWeek(birthday, today)
            /\ Len(text) = 10 /\ text[5] = "." /\ text[8] = "."
            /\ IsDate(date.year, date.month, date.day)
            /\ toordinal(date) = toordinal(occurrence)
                   + (IF IsSaturday(occurrence) THEN 2
                      ELSE IF IsSunday(occurrence) THEN 1 ELSE 0)
            /\ ~IsSaturday(date) /\ ~IsSunday(date)
            /\ toordinal(today) <= toordinal(date)
            /\ toordinal(date) <= toordinal(today) + 9

\* C2's case: an entry for a birthday that falls on the Saturday 7 days from
\* today and is congratulated on the Monday 9 days from today.
C2_Witness ==
    /\ out.op = "get_upcoming_birthdays"
    /\ out.raised = "none"
    /\ \E i \in 1..Len(out.value) :
          LET birthday == find(book, out.value[i].name)[1].birthday[1] IN
          /\ SameDayMonth(DaysAfter(today, 7), birthday)
          /\ IsSaturday(DaysAfter(today, 7))
          /\ out.value[i].congratulation_date = strftime(DaysAfter(today, 9))

\* C8: days_to_birthday() returns None when the record has no birthday, and
\* otherwise the number of days from today to the next date, today or later,
\* with the birthday's day and month: never negative, 0 exactly when today has
\* that day and month; it returns for every stored birthday, 29 February too.
C8_DaysToNextOccurrence ==
    out.op = "days_to_birthday" =>
        LET r == find(book, out.args[1])[1] IN
        /\ out.raised = "none"
        /\ r.birthday = <<>> => out.value = <<>>
        /\ r.birthday # <<>> =>
              /\ out.value # <<>>
              /\ out.value[1] >= 0
              /\ out.value[1] = 0 <=> SameDayMonth(today, r.birthday[1])
              /\ SameDayMonth(DaysAfter(today, out.value[1]), r.birthday[1])
              /\ \A k \in 0..(out.value[1] - 1) :
                    ~SameDayMonth(DaysAfter(today, k), r.birthday[1])

\* C6: whatever line the loop reads (an unknown verb, a wrong argument count,
\* an unknown contact, an invalid phone or date, an empty or blank line), it
\* answers with a plain message and reads on; no error leaves the processing
\* of a command, and the process ends only after close or exit.
C6_LoopAnswersEveryLine ==
    [][ pc = "loop" =>
           \/ pc' = "loop" /\ out'.op = "print"
           \/ pc' = "done" /\ cmd' \in {"close", "exit"} /\ out'.op = "print" ]_vars

\* C7: a session that ended with close or exit saved the snapshot exactly
\* once, and the snapshot is the book as it was then: loading it gives the same
\* keys and names in the same order, the same phones in the same order, the
\* same birthdays. The book a session starts with is the book in memory when
\* the last session before it that ended with close or exit ended, and the
\* empty book when there is no snapshot file.
C7_SnapshotRoundTrip ==
    /\ pc = "done" =>
          /\ saves = 1
          /\ file # <<>>
          /\ Content(load_data(file)) = Content(book)
          /\ exitBook = Content(book)
    /\ (pc = "loop" /\ cmd = "") =>
          /\ saves = 0
          /\ Content(book) = exitBook
          /\ file = <<>> => book = <<>>

\* C7's case: a session has started with a loaded book of two records, one
\* with two different phones and a birthday.
C7_Witness ==
    /\ pc = "loop"
    /\ cmd = ""
    /\ file # <<>>
    /\ Len(book) = 2
    /\ \E i \in 1..2 :
          /\ book[i].rec.phones = <<P2, P1>>
          /\ book[i].rec.birthday # <<>>

\* C10: an add command answered with an error message (a wrong argument count,
\* an invalid phone) leaves the book as it was: no contact created, no phone
\* added, whether the name was in the book or not.
C10_FailedAddLeavesBook ==
    [][ (pc = "loop" /\ cmd' = "add" /\ out'.op = "print" /\ out'.raised # "none")
        => book' = book ]_vars

====
